---- MODULE Spec2Model ----
(***************************************************************************)
(* Model of the find_path resolver of web/pages/api/graphql.ts: the filter  *)
(* compiler (create_filter), the query builder (build_query), the          *)
(* decomposition of the returned path into (person, relationship, project) *)
(* triples, the parent-show lookups started for TvEpisode projects, and    *)
(* the MovieOrTvEpisode type resolver.                                     *)
(*                                                                         *)
(* Query text is modelled as a sequence of lexemes, so that interpolating  *)
(* an operand into a template is concatenation and the emitted text can be *)
(* read back the way the Cypher grammar reads it (AND binds tighter than   *)
(* OR).                                                                    *)
(***************************************************************************)
EXTENDS Integers, Sequences, FiniteSets, TLC

\* ------------------------------------------------------------------ bounds
\* most entries in the filters of one request (over the three categories)
MaxEntries == 2
\* most segments of a path the executor returns
MaxSegments == 4

\* ----------------------------------------------------------------- lexemes
Tok(k, s, n, f) == [k |-> k, s |-> s, n |-> n, f |-> f]
\* template text of the source, kept verbatim
KW(s) == Tok("kw", s, 0, <<>>)
\* the text of a number
NUM(n) == Tok("num", "", n, <<>>)
\* a bare word of operand text (true, null, undefined, Released, ...)
WORD(s) == Tok("word", s, 0, <<>>)
\* r.<name>, the name given by its "_"-separated parts
PROP(f) == Tok("prop", "", 0, f)
\* the text Date.toString() gives for the date numbered n: "20nn-01-01"
DATETEXT(n) == Tok("datetext", "", n, <<>>)

\* ---------------------------------------------------------- operand values
\* what filter[x] can hold after the schema's input coercion
Val(ty, n, text, items) == [ty |-> ty, n |-> n, text |-> text, items |-> items]
IntV(n) == Val("int", n, <<>>, <<>>)
BoolV(n) == Val("bool", n, <<>>, <<>>)
DateV(n) == Val("date", n, <<>>, <<>>)
\* a string, given by the lexemes of its text
StrV(text) == Val("string", 0, text, <<>>)
NullV == Val("null", 0, <<>>, <<>>)
UndefinedV == Val("undefined", 0, <<>>, <<>>)
ListV(items) == Val("list", 0, <<>>, items)

\* an optional filter argument: present with its entries in property order,
\* or absent (undefined or null)
Given(entries) == [present |-> TRUE, entries |-> entries]
Absent == [present |-> FALSE, entries |-> <<>>]

RECURSIVE JoinWith(_, _)
\* Array.prototype.join: the texts of a list with sep between them
JoinWith(texts, sep) ==
    IF texts = <<>> THEN <<>>
    ELSE IF Len(texts) = 1 THEN texts[1]
    ELSE texts[1] \o sep \o JoinWith(Tail(texts), sep)

\* `${v}` for a scalar v
ScalarText(v) ==
    CASE v.ty = "int" -> <<NUM(v.n)>>
      [] v.ty = "bool" -> <<WORD(IF v.n = 1 THEN "true" ELSE "false")>>
      [] v.ty = "date" -> <<DATETEXT(v.n)>>
      [] v.ty = "string" -> v.text
      [] v.ty = "null" -> <<WORD("null")>>
      [] v.ty = "undefined" -> <<WORD("undefined")>>

\* an array element inside Array.prototype.toString: null and undefined
\* give the empty text
ElementText(v) ==
    IF v.ty \in {"null", "undefined"} THEN <<>> ELSE ScalarText(v)

\* `${v}` for any operand
TemplateText(v) ==
    IF v.ty = "list"
    THEN JoinWith([i \in 1..Len(v.items) |-> ElementText(v.items[i])], <<KW(",")>>)
    ELSE ScalarText(v)

\* values[i] of a JavaScript array (0-based), undefined past its end
ArrayAt(items, i) == IF i + 1 <= Len(items) THEN items[i + 1] ELSE UndefinedV

\* ------------------------------------------------------------- field names
\* a field name is the sequence of its "_"-separated parts:
\* release_date_GT is <<"release", "date", "GT">>
\* x.endsWith("_" + sfx)
endsWith(x, sfx) == Len(x) >= 2 /\ x[Len(x)] = sfx

\* part begins with the letters of sfx ("GTE" begins with "GT")
BeginsWith(part, sfx) ==
    \/ part = sfx
    \/ sfx = "GT" /\ part = "GTE"
    \/ sfx = "LT" /\ part = "LTE"

\* x.split("_" + sfx)[0]: the text before the first occurrence of "_" + sfx
splitFirst(x, sfx) ==
    LET hits == {i \in 2..Len(x) : BeginsWith(x[i], sfx)}
    IN IF hits = {} THEN x
       ELSE SubSeq(x, 1, (CHOOSE i \in hits : \A j \in hits : i <= j) - 1)

\* ----------------------------------------------------------- create_filter
\* the array `values` of one loop iteration: a Date becomes the one-element
\* array holding the text date("<date>"), anything else is filter[x] itself
valuesOf(v) ==
    IF v.ty = "date"
    THEN ListV(<<StrV(<<KW("date(\"")>> \o ScalarText(v) \o <<KW("\")")>>)>>)
    ELSE v

\* values[i]; indexing null or undefined throws (see entryThrows), indexing
\* a number or a boolean gives undefined.  No _IN field of the schema is a
\* String, so the characters of a string are not modelled.
indexOf(values, i) ==
    IF values.ty = "list" THEN ArrayAt(values.items, i) ELSE UndefinedV

\* values[0] of an _IN entry throws a TypeError when values is null
entryThrows(x, v) ==
    /\ ~ endsWith(x, "GT") /\ ~ endsWith(x, "LT")
    /\ ~ endsWith(x, "GTE") /\ ~ endsWith(x, "LTE")
    /\ endsWith(x, "IN")
    /\ valuesOf(v).ty \in {"null", "undefined"}

\* the switch (true) of create_filter: the text pushed for the entry x: v
entryText(x, v) ==
    LET values == valuesOf(v)
    IN CASE endsWith(x, "GT") ->
              <<PROP(splitFirst(x, "GT")), KW(">")>> \o TemplateText(values)
         [] endsWith(x, "LT") ->
              <<PROP(splitFirst(x, "LT")), KW("<")>> \o TemplateText(values)
         [] endsWith(x, "GTE") ->
              <<PROP(splitFirst(x, "GTE")), KW(">=")>> \o TemplateText(values)
         [] endsWith(x, "LTE") ->
              <<PROP(splitFirst(x, "LTE")), KW("<=")>> \o TemplateText(values)
         [] endsWith(x, "IN") ->
              TemplateText(indexOf(values, 0))
                \o <<KW("<="), PROP(splitFirst(x, "IN")), KW("<=")>>
                \o TemplateText(indexOf(values, 1))
         [] OTHER ->
              <<PROP(x), KW("=")>> \o TemplateText(values)

\* create_filter(filter): filter is the sequence of the object's entries in
\* property order.  The result is the joined text, or threw = TRUE.
create_filter(filter) ==
    IF \E i \in 1..Len(filter) : entryThrows(filter[i].field, filter[i].value)
    THEN [threw |-> TRUE, text |-> <<>>]
    ELSE [threw |-> FALSE,
          text |-> JoinWith([i \in 1..Len(filter) |->
                               entryText(filter[i].field, filter[i].value)],
                            <<KW("AND")>>)]

\* ------------------------------------------------------------- build_query
\* _args.filters?.<category>: absent when filters is absent
categoryOf(args, category) ==
    IF args.filters.present THEN args.filters[category] ELSE Absent

\* JavaScript truthiness of a filter argument (an object, even {}, is truthy)
truthyArg(f) == f.present

AllOpen(label) == KW("all(r IN [x in nodes(p) where x:" \o label \o "] WHERE")
AllClose == KW(")")
PersonId == <<"person", "id">>

\* the first lines of the query, up to the shortestPath pattern
queryHead(args) ==
    << KW("MATCH (p1:Person {person_id:"), NUM(args.first_person_id),
       KW("}), (p2:Person {person_id:"), NUM(args.second_person_id),
       KW("}), p = shortestPath((p1)-[*]-(p2))") >>

\* personClause with the allowance for the second endpoint left out
personClause_oneEndpoint(PersonFilter, args) ==
    <<AllOpen("Person")>> \o PersonFilter
      \o <<KW("OR"), PROP(PersonId), KW("="), NUM(args.first_person_id), AllClose>>

\* the text of the person clause around the compiled PersonFilter
personClause(PersonFilter, args) ==
    <<AllOpen("Person")>> \o PersonFilter
      \o <<KW("OR"), PROP(PersonId), KW("="), NUM(args.first_person_id),
           KW("OR"), PROP(PersonId), KW("="), NUM(args.second_person_id),
           AllClose>>

\* build_query(_args): the query text, or threw = TRUE when a create_filter
\* call throws
build_query(args) ==
    LET mf == categoryOf(args, "movie_filter")
        tf == categoryOf(args, "tv_filter")
        pf == categoryOf(args, "person_filter")
        NoFilter == [threw |-> FALSE, text |-> <<>>]
        MovieFilter == IF truthyArg(mf) THEN create_filter(mf.entries) ELSE NoFilter
        TvFilter == IF truthyArg(tf) THEN create_filter(tf.entries) ELSE NoFilter
        PersonFilter == IF truthyArg(pf) THEN create_filter(pf.entries) ELSE NoFilter
        where == IF truthyArg(pf) \/ truthyArg(mf) \/ truthyArg(tf)
                 THEN <<KW("WHERE")>> ELSE <<>>
        \* a null filter and an empty string are both falsy
        movieC == IF MovieFilter.text # <<>>
                  THEN << <<AllOpen("Movie")>> \o MovieFilter.text \o <<AllClose>> >>
                  ELSE <<>>
        tvC == IF TvFilter.text # <<>>
               THEN << <<AllOpen("TvEpisode")>> \o TvFilter.text \o <<AllClose>> >>
               ELSE <<>>
        personC == IF PersonFilter.text # <<>>
                   THEN << personClause(PersonFilter.text, args) >>
                   ELSE <<>>
    IN IF MovieFilter.threw \/ TvFilter.threw \/ PersonFilter.threw
       THEN [threw |-> TRUE, text |-> <<>>]
       ELSE [threw |-> FALSE,
             text |-> queryHead(args) \o where
                        \o JoinWith(movieC \o tvC \o personC, <<KW("AND")>>)
                        \o <<KW("RETURN p")>>]

\* ------------------------------------------------------ schema (typeDefs)
\* the five suffixed fields the schema declares for a comparable base field
Comparable(base, ty) ==
    {<<base \o <<sfx>>, ty>> : sfx \in {"GT", "LT", "GTE", "LTE"}}
      \cup {<<base \o <<"IN">>, "[" \o ty \o "]">>}

\* input MovieFilter
MovieFilterType ==
    {<<(<<"adult">>), "Boolean">>, <<(<<"genres">>), "[String]">>,
     <<(<<"imdb", "id">>), "String">>, <<(<<"movie", "id">>), "Int">>,
     <<(<<"production", "companies">>), "[Int]">>,
     <<(<<"spoken", "languages">>), "[String]">>,
     <<(<<"status">>), "String">>, <<(<<"runtime">>), "Int">>}
      \cup Comparable(<<"budget">>, "Int") \cup Comparable(<<"revenue">>, "Int")
      \cup Comparable(<<"movie", "id">>, "Int")
      \cup Comparable(<<"release", "date">>, "Date")

\* input TvFilter
TvFilterType ==
    {<<(<<"episode", "id">>), "Int">>}
      \cup Comparable(<<"air", "date">>, "Date")
      \cup Comparable(<<"vote", "average">>, "Float")
      \cup Comparable(<<"runtime">>, "Int")

\* input PersonFilter
PersonFilterType ==
    {<<(<<"adult">>), "Boolean">>, <<(<<"gender">>), "Int">>,
     <<(<<"person", "id">>), "Int">>}
      \cup Comparable(<<"birthday">>, "Date")
      \cup Comparable(<<"deathday">>, "Date")
      \cup Comparable(<<"popularity">>, "Float")

Categories == {"movie_filter", "tv_filter", "person_filter"}

\* input PathFilters: the input type of each category
PathFilters(category) ==
    CASE category = "movie_filter" -> MovieFilterType
      [] category = "tv_filter" -> TvFilterType
      [] category = "person_filter" -> PersonFilterType

\* the type the schema declares for a field of a category, "" when it
\* declares none
DeclaredType(category, x) ==
    IF \E d \in PathFilters(category) : d[1] = x
    THEN (CHOOSE d \in PathFilters(category) : d[1] = x)[2]
    ELSE ""

ListTypes == {"[Int]", "[Float]", "[Date]", "[String]"}
ItemType(ty) ==
    CASE ty = "[Int]" -> "Int" [] ty = "[Float]" -> "Float"
      [] ty = "[Date]" -> "Date" [] ty = "[String]" -> "String"

\* A request value is written with the same constructors as an operand; a
\* DateV in a request stands for the string "20nn-01-01".
\* Does a scalar type of the schema accept the request value?  Every input
\* field is nullable.
AcceptsScalar(ty, raw) ==
    \/ raw.ty = "null"
    \/ ty = "Int" /\ raw.ty = "int"
    \/ ty = "Float" /\ raw.ty = "int"
    \/ ty = "Boolean" /\ raw.ty = "bool"
    \/ ty = "String" /\ raw.ty \in {"string", "date"}
    \/ ty = "Date" /\ raw.ty = "date"

\* the operand a scalar type makes of an accepted request value: a Date
\* field parses its string to a driver Date, a String field keeps the text
CoerceScalar(ty, raw) ==
    IF ty = "String" /\ raw.ty = "date" THEN StrV(ScalarText(raw)) ELSE raw

\* does the declared type accept the request value?  A list type accepts a
\* list of acceptable items, and a single acceptable item as a list of one
Accepts(ty, raw) ==
    IF ty \in ListTypes
    THEN \/ raw.ty = "null"
         \/ raw.ty = "list"
              /\ \A i \in 1..Len(raw.items) : AcceptsScalar(ItemType(ty), raw.items[i])
         \/ raw.ty # "list" /\ AcceptsScalar(ItemType(ty), raw)
    ELSE ty # "" /\ raw.ty # "list" /\ AcceptsScalar(ty, raw)

\* the operand the resolver receives for an accepted request value
Coerce(ty, raw) ==
    IF ty \in ListTypes
    THEN IF raw.ty = "null" THEN raw
         ELSE IF raw.ty = "list"
         THEN ListV([i \in 1..Len(raw.items) |-> CoerceScalar(ItemType(ty), raw.items[i])])
         ELSE ListV(<<CoerceScalar(ItemType(ty), raw)>>)
    ELSE CoerceScalar(ty, raw)

\* the schema accepts every entry of the filter written for a category
AcceptsFilter(category, f) ==
    \A i \in 1..Len(f.entries) :
        Accepts(DeclaredType(category, f.entries[i].field), f.entries[i].value)

\* the filter the resolver receives
CoerceFilter(category, f) ==
    [present |-> f.present,
     entries |-> [i \in 1..Len(f.entries) |->
                    [field |-> f.entries[i].field,
                     value |-> Coerce(DeclaredType(category, f.entries[i].field),
                                      f.entries[i].value)]]]

\* the schema accepts the arguments of a find_path request
SchemaAccepts(req) ==
    \A c \in Categories : AcceptsFilter(c, req.filters[c])

\* _args as the resolver receives them
CoerceArgs(req) ==
    [first_person_id |-> req.first_person_id,
     second_person_id |-> req.second_person_id,
     filters |-> [present |-> req.filters.present,
                  movie_filter |-> CoerceFilter("movie_filter", req.filters.movie_filter),
                  tv_filter |-> CoerceFilter("tv_filter", req.filters.tv_filter),
                  person_filter |-> CoerceFilter("person_filter", req.filters.person_filter)]]

\* --------------------------------------------------------- the graph store
\* Property names are written like field names.  A node is its label and
\* its properties object.
K(a) == <<a>>
PersonNode(id, gender, birthday, popularity) ==
    [label |-> "Person",
     props |-> (PersonId :> IntV(id)) @@ (K("gender") :> IntV(gender))
                 @@ (K("birthday") :> DateV(birthday))
                 @@ (K("popularity") :> IntV(popularity))]
MovieNode(id, budget) ==
    [label |-> "Movie",
     props |-> (<<"movie", "id">> :> IntV(id)) @@ (K("budget") :> IntV(budget))]
EpisodeNode(id, show) ==
    [label |-> "TvEpisode",
     props |-> (<<"episode", "id">> :> IntV(id)) @@ (<<"tv", "show", "id">> :> IntV(show))]
\* an episode record that carries no show reference
OrphanEpisodeNode(id) ==
    [label |-> "TvEpisode", props |-> (<<"episode", "id">> :> IntV(id))]
ShowNode(id) ==
    [label |-> "TvShow", props |-> (<<"tv", "id">> :> IntV(id))]
CastRel(credit) ==
    (K("character") :> IntV(credit)) @@ (<<"credit", "id">> :> IntV(credit))
CrewRel(credit) ==
    (K("department") :> IntV(credit)) @@ (<<"credit", "id">> :> IntV(credit))

Persons == {PersonNode(1, 1, 3, 5), PersonNode(2, 2, 6, 1), PersonNode(3, 1, 8, 9)}
Projects ==
    {MovieNode(10, 7), MovieNode(0, 2), EpisodeNode(7, 100), EpisodeNode(8, 999),
     OrphanEpisodeNode(9)}
Shows == {ShowNode(100)}

PersonById(id) == CHOOSE n \in Persons : n.props[PersonId] = IntV(id)
\* CAST_FOR and CREW_FOR edges: every edge joins a Person and a project
Edges ==
    {[person |-> PersonById(1), project |-> MovieNode(10, 7), rel |-> CastRel(11)],
     [person |-> PersonById(2), project |-> MovieNode(10, 7), rel |-> CrewRel(12)],
     [person |-> PersonById(1), project |-> MovieNode(0, 2), rel |-> CastRel(13)],
     [person |-> PersonById(2), project |-> MovieNode(0, 2), rel |-> CastRel(14)],
     [person |-> PersonById(1), project |-> OrphanEpisodeNode(9), rel |-> CrewRel(15)],
     [person |-> PersonById(2), project |-> OrphanEpisodeNode(9), rel |-> CastRel(16)],
     [person |-> PersonById(1), project |-> EpisodeNode(7, 100), rel |-> CastRel(17)],
     [person |-> PersonById(3), project |-> EpisodeNode(7, 100), rel |-> CrewRel(18)],
     [person |-> PersonById(1), project |-> EpisodeNode(8, 999), rel |-> CastRel(19)],
     [person |-> PersonById(2), project |-> EpisodeNode(8, 999), rel |-> CastRel(20)],
     [person |-> PersonById(3), project |-> MovieNode(10, 7), rel |-> CrewRel(21)]}

\* a path as the driver returns it: its nodes in traversal order and the
\* relationship between each two neighbours
OnPath(path, n) == \E i \in 1..Len(path.nodes) : path.nodes[i] = n
StepsFrom(path) ==
    LET last == path.nodes[Len(path.nodes)]
    IN {[nodes |-> Append(path.nodes, e.project), rels |-> Append(path.rels, e.rel)] :
          e \in {e \in Edges : e.person = last /\ ~ OnPath(path, e.project)}}
       \cup
       {[nodes |-> Append(path.nodes, e.person), rels |-> Append(path.rels, e.rel)] :
          e \in {e \in Edges : e.project = last /\ ~ OnPath(path, e.person)}}

RECURSIVE WalksFrom(_, _)
\* the simple paths of at most k more segments that extend one of paths
WalksFrom(paths, k) ==
    IF k = 0 \/ paths = {} THEN paths
    ELSE paths \cup WalksFrom(UNION {StepsFrom(p) : p \in paths}, k - 1)

\* the paths between two persons the executor can return
PathsBetween(first, second) ==
    IF \E n \in Persons : n.props[PersonId] = IntV(first)
    THEN {p \in WalksFrom({[nodes |-> <<PersonById(first)>>, rels |-> <<>>]}, MaxSegments) :
            LET last == p.nodes[Len(p.nodes)]
            IN last.label = "Person" /\ last.props[PersonId] = IntV(second)}
    ELSE {}

\* path.segments of the driver: segment i runs from node i to node i + 1 in
\* traversal order.  start and end are references to the path's node objects,
\* written as positions in path.nodes.
segmentsOf(path) ==
    [i \in 1..Len(path.rels) |->
       [start |-> i, relationship |-> path.rels[i], end |-> i + 1]]

\* ------------------------------------------------------------ the requests
Entry(x, v) == [field |-> x, value |-> v]
Released == StrV(<<WORD("Released")>>)
\* the operand text: x OR true
Injected == StrV(<<WORD("x"), KW("OR"), WORD("true")>>)

\* the filter entries requests are written with, per category
InputEntries(category) ==
    CASE category = "movie_filter" ->
           {Entry(<<"budget", "GT">>, IntV(5)), Entry(<<"budget", "GT">>, IntV(9)),
            Entry(<<"budget", "GT">>, Released),
            Entry(K("status"), Released), Entry(K("status"), Injected),
            Entry(<<"release", "date", "IN">>, ListV(<<DateV(1), DateV(9)>>)),
            Entry(<<"movie", "id", "IN">>, ListV(<<IntV(0), IntV(10)>>)),
            Entry(<<"movie", "id", "IN">>, ListV(<<IntV(10)>>)),
            Entry(<<"movie", "id", "IN">>, IntV(10))}
      [] category = "tv_filter" ->
           {Entry(<<"runtime", "LTE">>, IntV(30)),
            Entry(<<"air", "date", "LT">>, DateV(4)),
            Entry(<<"episode", "id">>, IntV(7)),
            Entry(<<"vote", "average", "IN">>, ListV(<<IntV(2), IntV(8), IntV(9)>>)),
            Entry(<<"vote", "average", "IN">>, NullV)}
      [] category = "person_filter" ->
           {Entry(K("gender"), IntV(1)), Entry(K("gender"), NullV),
            Entry(K("height"), IntV(1)),
            Entry(<<"birthday", "GTE">>, DateV(5)),
            Entry(<<"birthday", "IN">>, ListV(<<DateV(1), DateV(7)>>)),
            Entry(<<"popularity", "IN">>, ListV(<<IntV(2), IntV(6)>>)),
            Entry(<<"popularity", "IN">>, ListV(<<>>))}

\* the filter objects of exactly k entries: an object has each key once
FiltersOf(category, k) ==
    {f \in [1..k -> InputEntries(category)] :
        \A i, j \in 1..k : i # j => f[i].field # f[j].field}

FilterArgs(category, k) ==
    IF k = 0 THEN {Absent, Given(<<>>)}
    ELSE {Given(f) : f \in FiltersOf(category, k)}

PersonIds == {1, 2}

\* the find_path requests: two person ids and the optional filters
Requests ==
    LET Sizes == {z \in [Categories -> 0..MaxEntries] :
                    z["movie_filter"] + z["tv_filter"] + z["person_filter"] <= MaxEntries}
        Present == UNION {
            {[present |-> TRUE, movie_filter |-> m, tv_filter |-> t, person_filter |-> q] :
                m \in FilterArgs("movie_filter", z["movie_filter"]),
                t \in FilterArgs("tv_filter", z["tv_filter"]),
                q \in FilterArgs("person_filter", z["person_filter"])} : z \in Sizes}
        NoFilters == [present |-> FALSE, movie_filter |-> Absent,
                      tv_filter |-> Absent, person_filter |-> Absent]
    IN {[first_person_id |-> a, second_person_id |-> b, filters |-> f] :
          a \in PersonIds, b \in PersonIds, f \in Present \cup {NoFilters}}

\* ------------------------------------------------------------------- state
VARIABLES
    pc,           \* where the request is: "idle", "invalid" (refused by the
                  \* schema), "threw" (find_path threw), "executing" (the
                  \* traversal is with the executor), "returned" (the promise
                  \* of find_path is fulfilled), "failed" (it is rejected);
                  \* for test: "test_running", "test_returned", "test_failed"
    request,      \* the find_path request as the client wrote it
    query,        \* the text handed to driver.executeQuery
    res,          \* how many records the traversal answered with, -1 before
    path,         \* res.records[0].get(0) of the traversal
    results,      \* the array find_path fulfils its promise with
    parent_show,  \* per node of the path: the promise stored in its
                  \* properties.parent_show (an index of lookups), 0 if unset
    sessions,     \* the sessions driver.session() has handed out
    lookups,      \* the promises of the parent-show lookups
    error,        \* what the promise of find_path is rejected with
    types         \* what MovieOrTvEpisode.__resolveType answered per triple

vars == <<pc, request, query, res, path, results, parent_show, sessions, lookups,
          error, types>>

NoFilters ==
    [present |-> FALSE, movie_filter |-> Absent, tv_filter |-> Absent,
     person_filter |-> Absent]
NoRequest == [first_person_id |-> 0, second_person_id |-> 0, filters |-> NoFilters]
NoPath == [nodes |-> <<>>, rels |-> <<>>]

\* _args of the resolver
args == CoerceArgs(request)

Init ==
    /\ pc = "idle"
    /\ request = NoRequest
    /\ query = <<>>
    /\ res = -1
    /\ path = NoPath
    /\ results = <<>>
    /\ parent_show = <<>>
    /\ sessions = <<>>
    /\ lookups = <<>>
    /\ error = ""
    /\ types = <<>>

\* ------------------------------------------------------ the type resolvers
\* JavaScript truthiness of obj[key]
truthy(obj, key) ==
    /\ key \in DOMAIN obj
    /\ LET v == obj[key]
       IN CASE v.ty = "int" -> v.n # 0
            [] v.ty = "bool" -> v.n = 1
            [] v.ty = "string" -> v.text # <<>>
            [] v.ty \in {"null", "undefined"} -> FALSE
            [] OTHER -> TRUE

hasOwnProperty(obj, key) == key \in DOMAIN obj

\* MovieOrTvEpisode.__resolveType
resolveType(obj) ==
    IF truthy(obj, <<"movie", "id">>) THEN "Movie"
    ELSE IF truthy(obj, <<"tv", "show", "id">>) THEN "TvEpisode"
    ELSE "null"

\* ---------------------------------------------------------------- find_path
\* obj[key], undefined when the object has no such property
propertyOf(obj, key) == IF key \in DOMAIN obj THEN obj[key] ELSE UndefinedV

\* which ends of segment i (counted from 0) the loop takes for the person
\* and for the project, were the parity test of i left out
sides_startIsPerson(p, i) ==
    LET seg == segmentsOf(p)[i + 1]
    IN [person |-> seg.start, project |-> seg.end]

\* which ends of segment i (counted from 0) the loop takes for the person
\* and for the project: i % 2 === 0 reads start as the person
sides(p, i) ==
    LET seg == segmentsOf(p)[i + 1]
    IN IF i % 2 = 0 THEN [person |-> seg.start, project |-> seg.end]
       ELSE [person |-> seg.end, project |-> seg.start]

RECURSIVE decompose(_, _, _)
\* the for loop of the executeQuery callback from iteration i on; st holds
\* results, sessions, lookups and the parent_show properties set so far
decompose(p, i, st) ==
    IF i >= Len(segmentsOf(p)) THEN st
    ELSE LET seg == segmentsOf(p)[i + 1]
             project == sides(p, i).project
             person == sides(p, i).person
             st1 == IF hasOwnProperty(p.nodes[project].props, <<"episode", "id">>)
                    THEN [st EXCEPT
                            !.sessions = Append(@, "open"),
                            !.lookups = Append(@,
                                [tv |-> propertyOf(p.nodes[project].props,
                                                   <<"tv", "show", "id">>),
                                 session |-> Len(st.sessions) + 1,
                                 state |-> "pending",
                                 records |-> -1,
                                 value |-> <<>>]),
                            !.parent_show[project] = Len(st.lookups) + 1]
                    ELSE st
         IN decompose(p, i + 1,
                      [st1 EXCEPT !.results = Append(@,
                          [person |-> person,
                           relationship |-> seg.relationship,
                           project |-> project])])

\* the schema refuses the request: the resolver is never called
SchemaRejects(req) ==
    /\ pc = "idle"
    /\ ~ SchemaAccepts(req)
    /\ request' = req
    /\ pc' = "invalid"
    /\ UNCHANGED <<query, res, path, results, parent_show, sessions, lookups, error, types>>

\* find_path up to its return: build the query and hand it to the executor
find_path(req) ==
    /\ pc = "idle"
    /\ SchemaAccepts(req)
    /\ request' = req
    /\ LET q == build_query(CoerceArgs(req))
       IN IF q.threw
          THEN /\ pc' = "threw"
               /\ error' = "TypeError"
               /\ query' = query
          ELSE /\ pc' = "executing"
               /\ query' = q.text
               /\ error' = error
    /\ UNCHANGED <<res, path, results, parent_show, sessions, lookups, types>>

\* driver.executeQuery fulfils with no record: res.records[0] is undefined
\* and the callback throws
executeQueryNoRecord ==
    /\ pc = "executing"
    /\ res' = 0
    /\ pc' = "failed"
    /\ error' = "TypeError"
    /\ UNCHANGED <<request, query, path, results, parent_show, sessions, lookups, types>>

\* driver.executeQuery fulfils with one record holding the path p: the
\* callback decomposes it and returns results
executeQueryRecord(p) ==
    /\ pc = "executing"
    /\ LET st == decompose(p, 0,
                   [results |-> <<>>, sessions |-> <<>>, lookups |-> <<>>,
                    parent_show |-> [n \in 1..Len(p.nodes) |-> 0]])
       IN /\ results' = st.results
          /\ sessions' = st.sessions
          /\ lookups' = st.lookups
          /\ parent_show' = st.parent_show
    /\ res' = 1
    /\ path' = p
    /\ pc' = "returned"
    /\ UNCHANGED <<request, query, error, types>>

\* driver.executeQuery rejects: find_path has no catch
executeQueryFails ==
    /\ pc = "executing"
    /\ pc' = "failed"
    /\ error' = "TraversalFailed"
    /\ UNCHANGED <<request, query, res, path, results, parent_show, sessions, lookups, types>>

\* the records of MATCH (tvShow:TvShow{tv_id: tv}) RETURN tvShow
showRecords(tv) == {show \in Shows : show.props[<<"tv", "id">>] = tv}

\* session.run of lookup l fulfils: the callback returns the properties of
\* the first record, and throws when there is none
lookupReturns(l) ==
    /\ l \in 1..Len(lookups)
    /\ lookups[l].state = "pending"
    /\ lookups[l].tv.ty # "undefined"
    /\ LET n == Cardinality(showRecords(lookups[l].tv))
           first == CHOOSE show \in showRecords(lookups[l].tv) : TRUE
       IN lookups' = [lookups EXCEPT
                        ![l].records = n,
                        ![l].state = IF n = 0 THEN "rejected" ELSE "fulfilled",
                        ![l].value = IF n = 0 THEN <<>> ELSE <<first.props>>]
    /\ UNCHANGED <<pc, request, query, res, path, results, parent_show, sessions, error, types>>

\* session.run of lookup l rejects (tv_id:undefined does not compile, or the
\* driver fails)
lookupFails(l) ==
    /\ l \in 1..Len(lookups)
    /\ lookups[l].state = "pending"
    /\ lookups' = [lookups EXCEPT ![l].state = "rejected"]
    /\ UNCHANGED <<pc, request, query, res, path, results, parent_show, sessions, error, types>>

\* the server resolves the concrete type of every project of the result
resolveTypes ==
    /\ pc = "returned"
    /\ results # <<>>
    /\ types = <<>>
    /\ types' = [i \in 1..Len(results) |->
                   resolveType(path.nodes[results[i].project].props)]
    /\ UNCHANGED <<pc, request, query, res, path, results, parent_show, sessions, lookups, error>>

\* ------------------------------------------------------------------- test
\* the episode and the show the test resolver asks for
TestEpisodeId == 3659603
TestShowId == 155513

\* test up to its return: a session is opened and the episode query is run
test ==
    /\ pc = "idle"
    /\ pc' = "test_running"
    /\ sessions' = Append(sessions, "open")
    /\ UNCHANGED <<request, query, res, path, results, parent_show, lookups, error, types>>

\* the episode query fulfils with no record: the callback throws
testNoRecord ==
    /\ pc = "test_running"
    /\ pc' = "test_failed"
    /\ error' = "TypeError"
    /\ UNCHANGED <<request, query, res, path, results, parent_show, sessions, lookups, types>>

\* the episode query fulfils with the episode: the callback opens a second
\* session for the show, stores the pending promise in parent_show and
\* returns the properties
testRecord ==
    /\ pc = "test_running"
    /\ path' = [nodes |-> <<EpisodeNode(TestEpisodeId, TestShowId)>>, rels |-> <<>>]
    /\ sessions' = Append(sessions, "open")
    /\ lookups' = Append(lookups,
                         [tv |-> IntV(TestShowId), session |-> Len(sessions) + 1,
                          state |-> "pending", records |-> -1, value |-> <<>>])
    /\ parent_show' = <<Len(lookups) + 1>>
    /\ pc' = "test_returned"
    /\ UNCHANGED <<request, query, res, results, error, types>>

\* the episode query rejects: test has no catch
testFails ==
    /\ pc = "test_running"
    /\ pc' = "test_failed"
    /\ error' = "LookupFailed"
    /\ UNCHANGED <<request, query, res, path, results, parent_show, sessions, lookups, types>>

\* the client sends one request
Receive ==
    /\ pc = "idle"
    /\ \/ \E req \in Requests : SchemaRejects(req) \/ find_path(req)
       \/ test

\* the executor answers the traversal
Traversal ==
    /\ pc = "executing"
    /\ \/ executeQueryNoRecord
       \/ \E p \in PathsBetween(request.first_person_id, request.second_person_id) :
             executeQueryRecord(p)
       \/ executeQueryFails

\* a parent-show lookup settles
Lookup ==
    /\ lookups # <<>>
    /\ \E l \in 1..Len(lookups) : lookupReturns(l) \/ lookupFails(l)

\* the store answers the episode query of test
TestAnswer == testNoRecord \/ testRecord \/ testFails

Next == Receive \/ Traversal \/ resolveTypes \/ Lookup \/ TestAnswer

Spec == Init /\ [][Next]_vars

\* -------------------------------------------- reading a predicate text back
\* How the executor reads the predicate text of an all(...) clause: OR binds
\* weaker than AND, a <= b <= c is a <= b AND b <= c.  The answer for one node
\* is "T", "F", "N" (null), or "E" when the text does not compile.

RECURSIVE SplitOn(_, _)
\* the pieces of text between the occurrences of the lexeme sep
SplitOn(text, sep) ==
    IF \E i \in 1..Len(text) : text[i] = sep
    THEN LET i == CHOOSE i \in 1..Len(text) :
                     text[i] = sep /\ \A j \in 1..(i - 1) : text[j] # sep
         IN <<SubSeq(text, 1, i - 1)>> \o SplitOn(SubSeq(text, i + 1, Len(text)), sep)
    ELSE <<text>>

ErrorV == Val("error", 0, <<>>, <<>>)

\* the value of an operand expression
operandValue(text) ==
    IF Len(text) = 1 /\ text[1].k = "num" THEN IntV(text[1].n)
    ELSE IF Len(text) = 1 /\ text[1] \in {WORD("true"), WORD("false")}
    THEN BoolV(IF text[1] = WORD("true") THEN 1 ELSE 0)
    ELSE IF text = <<WORD("null")>> THEN NullV
    \* 20nn-01-01 outside a date literal is a subtraction of integers
    ELSE IF Len(text) = 1 /\ text[1].k = "datetext" THEN IntV(2000 + text[1].n - 1 - 1)
    ELSE IF Len(text) = 3 /\ text[1] = KW("date(\"") /\ text[2].k = "datetext"
            /\ text[3] = KW("\")")
    THEN DateV(text[2].n)
    \* an unbound variable, a list, an empty text
    ELSE ErrorV

\* a op b in the three-valued logic of the query language
compare(a, op, b) ==
    IF a.ty = "error" \/ b.ty = "error" THEN "E"
    ELSE IF a.ty \in {"null", "undefined"} \/ b.ty \in {"null", "undefined"} THEN "N"
    ELSE IF a.ty # b.ty THEN (IF op = "=" THEN "F" ELSE "N")
    ELSE IF CASE op = "=" -> a.n = b.n
              [] op = ">" -> a.n > b.n
              [] op = "<" -> a.n < b.n
              [] op = ">=" -> a.n >= b.n
              [] op = "<=" -> a.n <= b.n
              [] OTHER -> FALSE
         THEN "T" ELSE "F"

and3(a, b) ==
    IF a = "E" \/ b = "E" THEN "E"
    ELSE IF a = "F" \/ b = "F" THEN "F"
    ELSE IF a = "N" \/ b = "N" THEN "N" ELSE "T"

or3(a, b) ==
    IF a = "E" \/ b = "E" THEN "E"
    ELSE IF a = "T" \/ b = "T" THEN "T"
    ELSE IF a = "N" \/ b = "N" THEN "N" ELSE "F"

CompareOps == {">", "<", ">=", "<=", "="}

\* one comparison: r.f op operand, or operand <= r.f <= operand
evalAtom(text, node) ==
    IF Len(text) >= 2 /\ text[1].k = "prop" /\ text[2].k = "kw" /\ text[2].s \in CompareOps
    THEN compare(propertyOf(node.props, text[1].f), text[2].s,
                 operandValue(SubSeq(text, 3, Len(text))))
    ELSE IF \E i \in 2..(Len(text) - 1) :
               text[i].k = "prop" /\ text[i - 1] = KW("<=") /\ text[i + 1] = KW("<=")
    THEN LET i == CHOOSE i \in 2..(Len(text) - 1) :
                     text[i].k = "prop" /\ text[i - 1] = KW("<=") /\ text[i + 1] = KW("<=")
             v == propertyOf(node.props, text[i].f)
         IN and3(compare(operandValue(SubSeq(text, 1, i - 2)), "<=", v),
                 compare(v, "<=", operandValue(SubSeq(text, i + 2, Len(text)))))
    ELSE "E"

RECURSIVE fold3(_, _, _)
\* and3 (all = TRUE) or or3 (all = FALSE) over a sequence of answers
fold3(answers, all, i) ==
    IF i > Len(answers) THEN (IF all THEN "T" ELSE "F")
    ELSE IF all THEN and3(answers[i], fold3(answers, all, i + 1))
    ELSE or3(answers[i], fold3(answers, all, i + 1))

evalAnd(text, node) ==
    LET parts == SplitOn(text, KW("AND"))
    IN fold3([i \in 1..Len(parts) |-> evalAtom(parts[i], node)], TRUE, 1)

\* the answer of a whole predicate text for a node
evalPredicate(text, node) ==
    LET parts == SplitOn(text, KW("OR"))
    IN fold3([i \in 1..Len(parts) |-> evalAnd(parts[i], node)], FALSE, 1)

\* the predicate text of the all(...) clause over the nodes of a label in a
\* query text: from its opening lexeme to the next closing one
HasClause(q, label) == \E i \in 1..Len(q) : q[i] = AllOpen(label)
ClauseText(q, label) ==
    LET i == CHOOSE i \in 1..Len(q) : q[i] = AllOpen(label)
        j == CHOOSE j \in (i + 1)..Len(q) :
                 q[j] = AllClose /\ \A m \in (i + 1)..(j - 1) : q[m] # AllClose
    IN SubSeq(q, i + 1, j - 1)

\* ================================================================== claims
\* a query has just been handed to the executor
Submitted == pc = "executing"

\* the sub-predicates of the person filter, each read on its own
personSubAnswers(node) ==
    LET f == args.filters.person_filter.entries
    IN [i \in 1..Len(f) |-> evalPredicate(entryText(f[i].field, f[i].value), node)]

\* the node satisfies the whole compiled person predicate: every sub-predicate
personWhole(node) == fold3(personSubAnswers(node), TRUE, 1)

\* the answer of the person clause of the submitted query for a node
personAnswer(node) == evalPredicate(ClauseText(query, "Person"), node)

\* one of the OR alternatives of the person clause is true of the node
exempted(node) ==
    LET parts == SplitOn(ClauseText(query, "Person"), KW("OR"))
    IN \E i \in 1..Len(parts) : evalAnd(parts[i], node) = "T"

isEndpoint(node) ==
    node.props[PersonId] \in {IntV(args.first_person_id), IntV(args.second_person_id)}

\* C1: in every submitted query built from a request with a person filter,
\* whatever the filter holds, a Person node that is one of the two endpoints
\* has an alternative of the person clause that is true of it, so the clause
\* answers true for it whenever the filter's predicate compiles at all; any
\* other Person node passes the clause exactly when it satisfies every person
\* sub-predicate.  A person filter without entries puts no person clause in
\* the query.
C1_EndpointsExempt ==
    (Submitted /\ args.filters.person_filter.present) =>
        IF HasClause(query, "Person")
        THEN \A node \in Persons :
                IF isEndpoint(node)
                THEN /\ exempted(node)
                     /\ personAnswer(node) = (IF personWhole(node) = "E" THEN "E" ELSE "T")
                ELSE personAnswer(node) = "T" <=> personWhole(node) = "T"
        ELSE args.filters.person_filter.entries = <<>>

\* C1 witness: a submitted query with a person clause, an endpoint that fails
\* every person sub-predicate and still passes, and another Person that fails
\* and is excluded
C1_Witness ==
    /\ Submitted /\ args.filters.person_filter.present
    /\ HasClause(query, "Person")
    /\ \E node \in Persons :
          /\ isEndpoint(node)
          /\ \A i \in 1..Len(personSubAnswers(node)) : personSubAnswers(node)[i] = "F"
          /\ personAnswer(node) = "T"
    /\ \E node \in Persons :
          ~ isEndpoint(node) /\ personWhole(node) = "F" /\ personAnswer(node) # "T"

\* the node object a reference of a triple points to
nodeAt(ref) == path.nodes[ref]
ProjectLabels == {"Movie", "TvEpisode"}

\* C2: when find_path returns a path of n segments, results holds n triples
\* in traversal order; in the i-th triple the person is the Person node and
\* the project the project node of segment i, with that segment's edge as the
\* relationship; the first person is the first supplied person, the last the
\* second, and neighbouring triples share their project or their person.
C2_TriplesFollowPath ==
    pc = "returned" =>
        /\ Len(results) = Len(segmentsOf(path))
        /\ \A i \in 1..Len(results) :
              LET seg == segmentsOf(path)[i]
                  t == results[i]
              IN /\ nodeAt(t.person).label = "Person"
                 /\ nodeAt(t.project).label \in ProjectLabels
                 /\ {t.person, t.project} = {seg.start, seg.end}
                 /\ t.relationship = seg.relationship
        /\ results # <<>> =>
              /\ nodeAt(results[1].person).props[PersonId] = IntV(args.first_person_id)
              /\ nodeAt(results[Len(results)].person).props[PersonId]
                    = IntV(args.second_person_id)
        /\ \A i \in 1..(Len(results) - 1) :
              \/ results[i].project = results[i + 1].project
                    /\ results[i].person # results[i + 1].person
              \/ results[i].person = results[i + 1].person
                    /\ results[i].project # results[i + 1].project

\* C2 witness: a returned path of four segments through two projects
C2_Witness ==
    /\ pc = "returned"
    /\ Len(results) = 4
    /\ results[1].project = results[2].project
    /\ results[2].person = results[3].person
    /\ results[3].project # results[1].project

\* the nodes of the returned path that are episodes for find_path
episodeRefs ==
    {n \in 1..Len(path.nodes) : hasOwnProperty(path.nodes[n].props, <<"episode", "id">>)}

\* C3: when find_path has returned, the parent_show of every Episode project
\* of the result is settled (a Show record or null), never a pending lookup.
C3_ParentShowSettledAtReturn ==
    pc = "returned" =>
        \A n \in episodeRefs :
            /\ parent_show[n] # 0
            /\ lookups[parent_show[n]].state # "pending"

\* C4: a lookup that finds no Show leaves a null attachment: its promise is
\* fulfilled with no record, never rejected, and the request is delivered.
C4_DanglingShowIsNull ==
    \A l \in 1..Len(lookups) :
        lookups[l].records = 0 =>
            /\ lookups[l].state = "fulfilled"
            /\ lookups[l].value = <<>>
            /\ pc = "returned"

\* C5: a traversal that answers with no record ends in the "no path" result,
\* an empty sequence of triples, and not in an error.
C5_NoPathIsEmptyResult ==
    res = 0 => (pc = "returned" /\ results = <<>> /\ error = "")

\* every lookup has settled and the request has finished
Quiescent ==
    /\ pc \in {"returned", "failed", "threw", "invalid", "test_returned", "test_failed"}
    /\ \A l \in 1..Len(lookups) : lookups[l].state # "pending"

\* C6: once the request has finished and every lookup has settled, whether
\* it found a Show, found none or failed, no session is left open.
C6_SessionsReleased ==
    Quiescent => \A k \in 1..Len(sessions) : sessions[k] # "open"

\* a filter entry as the claim wants it: a field the category declares, an
\* operand of the declared type and, for an _IN field, a pair of bounds
validEntry(category, e) ==
    /\ Accepts(DeclaredType(category, e.field), e.value)
    /\ endsWith(e.field, "IN") =>
          LET v == Coerce(DeclaredType(category, e.field), e.value)
          IN /\ v.ty = "list"
             /\ Len(v.items) = 2
             /\ \A i \in 1..2 : v.items[i].ty \notin {"null", "undefined"}

validFilters(req) ==
    \A c \in Categories :
        \A i \in 1..Len(req.filters[c].entries) : validEntry(c, req.filters[c].entries[i])

\* C7: no request with an invalid filter entry reaches driver.executeQuery.
C7_InvalidFilterNeverExecuted ==
    Submitted => validFilters(request)

\* C8: the resolver answers Movie for a record with a movie_id field, TvEpisode
\* for a record with an episode_id or show-reference field and no movie_id,
\* and the unresolved answer for a record with neither, whatever the values.
C8_ResolvedByFieldPresence ==
    \A i \in 1..Len(types) :
        LET obj == nodeAt(results[i].project).props
        IN types[i] =
             IF hasOwnProperty(obj, <<"movie", "id">>) THEN "Movie"
             ELSE IF hasOwnProperty(obj, <<"episode", "id">>)
                     \/ hasOwnProperty(obj, <<"tv", "show", "id">>)
             THEN "TvEpisode"
             ELSE "null"

\* a bound as a literal of its type: a date as date("..."), a number as is
typedLiteral(v) ==
    IF v.ty = "date" THEN <<KW("date(\"")>> \o ScalarText(v) \o <<KW("\")")>>
    ELSE ScalarText(v)

\* the label of the nodes a category filters
labelOf(category) ==
    CASE category = "movie_filter" -> "Movie"
      [] category = "tv_filter" -> "TvEpisode"
      [] category = "person_filter" -> "Person"

\* the comparisons of a category's clause in the submitted query: the pieces
\* of its predicate text between the ANDs and ORs
subPredicates(category) ==
    IF HasClause(query, labelOf(category))
    THEN LET parts == SplitOn(ClauseText(query, labelOf(category)), KW("OR"))
         IN UNION {{SplitOn(parts[i], KW("AND"))[j] :
                      j \in 1..Len(SplitOn(parts[i], KW("AND")))} : i \in 1..Len(parts)}
    ELSE {}

\* the inclusive range test lower <= r.base <= upper with typed bounds
rangeTest(x, lower, upper) ==
    typedLiteral(lower) \o <<KW("<="), PROP(SubSeq(x, 1, Len(x) - 1)), KW("<=")>>
      \o typedLiteral(upper)

\* an _IN entry with two bounds
isPair(e) ==
    /\ endsWith(e.field, "IN")
    /\ e.value.ty = "list" /\ Len(e.value.items) = 2
    /\ \A i \in 1..2 : e.value.items[i].ty \in {"int", "date"}

\* C9: every _IN entry with two bounds is in the submitted query as the
\* range test lower <= base field <= upper, date bounds as date literals.
C9_InIsTypedRange ==
    Submitted =>
        \A c \in Categories :
            \A i \in 1..Len(args.filters[c].entries) :
                LET e == args.filters[c].entries[i]
                IN isPair(e) =>
                     rangeTest(e.field, e.value.items[1], e.value.items[2])
                       \in subPredicates(c)

\* two requests that differ only in operand values
sameShape(a, b) ==
    /\ a.first_person_id = b.first_person_id
    /\ a.second_person_id = b.second_person_id
    /\ a.filters.present = b.filters.present
    /\ \A c \in Categories :
          /\ a.filters[c].present = b.filters[c].present
          /\ Len(a.filters[c].entries) = Len(b.filters[c].entries)
          /\ \A i \in 1..Len(a.filters[c].entries) :
                a.filters[c].entries[i].field = b.filters[c].entries[i].field

\* C10: the submitted query text is the same for every accepted request that
\* differs from this one only in operand values.
C10_BodyIndependentOfOperands ==
    Submitted =>
        \A other \in Requests :
            (SchemaAccepts(other) /\ sameShape(request, other)
               /\ ~ build_query(CoerceArgs(other)).threw)
              => build_query(CoerceArgs(other)).text = query

\* the category clauses of the submitted query
clauseLabels == {labelOf(c) : c \in Categories}
clausesIn(q) == {i \in 1..Len(q) : \E label \in clauseLabels : q[i] = AllOpen(label)}
hasWhere(q) == \E i \in 1..Len(q) : q[i] = KW("WHERE")

\* every all(...) clause of the query has a predicate inside
clausesNonEmpty(q) ==
    \A label \in clauseLabels : HasClause(q, label) => ClauseText(q, label) # <<>>

\* the query is the unconstrained shortest path, or WHERE followed by one to
\* three category clauses joined by AND
wellShaped(q) ==
    LET tail == SubSeq(q, Len(queryHead(args)) + 1, Len(q))
    IN \/ tail = <<KW("RETURN p")>>
       \/ /\ tail[1] = KW("WHERE")
          /\ Cardinality(clausesIn(tail)) \in 1..3
          /\ 2 \in clausesIn(tail)
          /\ \A i \in clausesIn(tail) : i > 2 => tail[i - 1] = KW("AND")
          /\ tail[Len(tail)] = KW("RETURN p") /\ tail[Len(tail) - 1] = AllClose

\* C11: for every filters argument the submitted query holds WHERE if and
\* only if a category clause follows it, every all(...) clause has a predicate
\* inside, and the query is either the unconstrained shortest path or WHERE
\* followed by one to three AND-joined category clauses.
C11_WhereIffClause ==
    Submitted =>
        /\ hasWhere(query) <=> clausesIn(query) # {}
        /\ clausesNonEmpty(query)
        /\ wellShaped(query)

====
